---- MODULE Spec2Model ----
(***************************************************************************)
(* Model of uber.py: the ride-booking dashboard.  The loaded table, the    *)
(* three filter widgets, the seven bound panes of the Dashboard page, the  *)
(* table of the Rides Table page and the main area are the state; a        *)
(* change of a widget value re-runs every function bound to it.            *)
(*                                                                         *)
(* Representation.  A data frame is a sequence of rows (records, one field *)
(* per column).  A cell that may be absent (NaN) is <<>> when absent and   *)
(* <<v>> when present.  Date is a day number, Time a minute of the day and *)
(* a timestamp is [day, minute].  Means are kept in hundredths.            *)
(***************************************************************************)
EXTENDS Integers, Sequences, FiniteSets, TLC

\* ------------------------------------------------------------------ bounds
\* Largest number of rows of a loaded CSV.
MaxRows == 12

\* ------------------------------------------------------- program constants
SLIDER_START == 0
SLIDER_END == 23
TOP_PICKUPS == 10
TOP_PLACES == 5
MIN_HISTORY == 5
PERIODS == 30
PAGE_SIZE == 15

\* ----------------------------------------------------------- small helpers
Min(a, b) == IF a <= b THEN a ELSE b

Range(s) == {s[i] : i \in 1..Len(s)}

Column(df, c) == [i \in 1..Len(df) |-> df[i][c]]

RECURSIVE SumSeq(_)
SumSeq(s) == IF s = <<>> THEN 0 ELSE Head(s) + SumSeq(Tail(s))

RECURSIVE Flatten(_)
\* The present values of a column, absent cells dropped (skipna).
Flatten(s) == IF s = <<>> THEN <<>> ELSE Head(s) \o Flatten(Tail(s))

\* len(df[df[c] == v])
CountEq(df, c, v) == Cardinality({i \in 1..Len(df) : df[i][c] = v})

\* Position of the first row of the column holding v.
FirstIndex(col, v) == CHOOSE i \in 1..Len(col) : col[i] = v /\ \A j \in 1..(i - 1) : col[j] # v

\* ------------------------------------------------------ the CSV file read
\* The values the rows of a file take, row i of a file being built from
\* these cycles; "Completed" is a status value outside the five the
\* dashboard counts.
StatusCycle == <<"Complete", "Cancelled by Driver", "Incomplete", "Cancelled by Customer",
                 "No Driver Found", "Completed">>
VehicleCycle == <<"Sedan", "SUV", "Sedan", "Bike">>
TimeCycle == <<510, 840, 1259, 0, 1439>>
PaymentCycle == <<"UPI", "Cash">>

\* A file shape fixes how many pickup locations, drop locations and dates
\* the rows of the file cycle through, and whether the pickup locations
\* appear in rising or falling label order.
FileShapes == << [locs |-> 11, drops |-> 7, dates |-> 6, rising |-> TRUE],
                 [locs |-> 3, drops |-> 2, dates |-> 4, rising |-> FALSE],
                 [locs |-> 5, drops |-> 6, dates |-> 5, rising |-> FALSE] >>

Cyc(seq, i) == seq[((i - 1) % Len(seq)) + 1]

CsvRow(i, sh) ==
    LET st == Cyc(StatusCycle, i)
        k  == (i - 1) % sh.locs
    IN [ Date |-> ((i - 1) % sh.dates) + 1,
         Time |-> Cyc(TimeCycle, i),
         BookingID |-> i,
         BookingStatus |-> st,
         CustomerID |-> 100 + ((i * 3) % 4),
         VehicleType |-> Cyc(VehicleCycle, i),
         PickupLocation |-> IF sh.rising THEN k + 1 ELSE sh.locs - k,
         DropLocation |-> ((i * 2) % sh.drops) + 1,
         RideDistance |-> IF st \in {"Complete", "Completed", "Incomplete"}
                          THEN <<((i * 7) % 40) + 1>> ELSE <<>>,
         DriverRatings |-> IF st \in {"Complete", "Completed"} THEN <<3 + (i % 3)>> ELSE <<>>,
         CustomerRating |-> IF st \in {"Complete", "Completed"} THEN <<5 - (i % 2)>> ELSE <<>>,
         PaymentMethod |-> Cyc(PaymentCycle, i) ]

\* pd.read_csv followed by the selection of the twelve columns.
read_csv(n, sh) == [i \in 1..n |-> CsvRow(i, sh)]

CsvFiles == {read_csv(n, FileShapes[k]) : n \in 0..MaxRows, k \in 1..Len(FileShapes)}

\* ------------------------------------------------------------------- load
SmallColumns == {"Date", "BookingStatus", "VehicleType", "PickupLocation", "DropLocation",
                 "RideDistance", "DriverRatings", "PaymentMethod"}

\* The selection with Time taken in the place of Date.
SelectSmall_time(df) ==
    [i \in 1..Len(df) |-> [c \in (SmallColumns \ {"Date"}) \cup {"Time"} |-> df[i][c]]]

\* df_uber[[...eight columns...]]
SelectSmall(df) == [i \in 1..Len(df) |-> [c \in SmallColumns |-> df[i][c]]]

\* pd.to_datetime(Date + ' ' + Time)
to_datetime(date, time) == [day |-> date, minute |-> time]

\* .dt.hour
dt_hour(ts) == ts.minute \div 60

\* The two derived columns added to df_uber.
AddDerived(df) ==
    [i \in 1..Len(df) |->
        LET ts == to_datetime(df[i].Date, df[i].Time)
            r  == df[i]
        IN [ Date |-> r.Date, Time |-> r.Time, BookingID |-> r.BookingID,
             BookingStatus |-> r.BookingStatus, CustomerID |-> r.CustomerID,
             VehicleType |-> r.VehicleType, PickupLocation |-> r.PickupLocation,
             DropLocation |-> r.DropLocation, RideDistance |-> r.RideDistance,
             DriverRatings |-> r.DriverRatings, CustomerRating |-> r.CustomerRating,
             PaymentMethod |-> r.PaymentMethod,
             PickupDatetime |-> ts, Hour |-> dt_hour(ts) ]]

\* .unique().tolist(): the distinct values in order of first appearance.
RECURSIVE unique(_)
unique(col) ==
    IF col = <<>> THEN <<>>
    ELSE LET init == unique(SubSeq(col, 1, Len(col) - 1))
             x    == col[Len(col)]
         IN IF x \in Range(init) THEN init ELSE Append(init, x)

\* ----------------------------------------------------------------- filter
\* df[df[c] == v]
WhereEq(df, c, v) == SelectSeq(df, LAMBDA r : r[c] = v)

\* filter_data with the end of the hour range left out.
filter_data_open_end(df_global, status, vehicle, hour_range) ==
    LET df1 == IF status # "All" THEN WhereEq(df_global, "BookingStatus", status) ELSE df_global
        df2 == IF vehicle # "All" THEN WhereEq(df1, "VehicleType", vehicle) ELSE df1
    IN SelectSeq(df2, LAMBDA r : r.Hour >= hour_range[1] /\ r.Hour < hour_range[2])

\* filter_data with the hour range applied to the row position, not to Hour.
filter_data_by_position(df_global, status, vehicle, hour_range) ==
    LET df1 == IF status # "All" THEN WhereEq(df_global, "BookingStatus", status) ELSE df_global
        df2 == IF vehicle # "All" THEN WhereEq(df1, "VehicleType", vehicle) ELSE df1
        keep == {i \in 1..Len(df2) : i - 1 >= hour_range[1] /\ i - 1 <= hour_range[2]}
    IN [k \in 1..Cardinality(keep) |->
           df2[CHOOSE i \in keep : Cardinality({j \in keep : j < i}) = k - 1]]

\* filter_data, on the frame it copies (the module-level df_uber).
filter_data(df_global, status, vehicle, hour_range) ==
    LET df0 == df_global
        df1 == IF status # "All" THEN WhereEq(df0, "BookingStatus", status) ELSE df0
        df2 == IF vehicle # "All" THEN WhereEq(df1, "VehicleType", vehicle) ELSE df1
        start_hour == hour_range[1]
        end_hour   == hour_range[2]
    IN SelectSeq(df2, LAMBDA r : r.Hour >= start_hour /\ r.Hour <= end_hour)

\* ------------------------------------------------------ pandas reductions
\* The orders sort_values (default kind, quicksort: not a stable sort) can
\* leave equal counts in: the one of first appearance, or its reverse.
TieOrders == {"first", "last"}

\* The entry sort_values puts first: a largest count, and among equal
\* counts the one the sort's tie order prefers.
Leader(es, ties) ==
    CHOOSE i \in 1..Len(es) :
        \A j \in (1..Len(es)) \ {i} :
            \/ es[i].count > es[j].count
            \/ es[i].count = es[j].count /\ (IF ties = "first" THEN i < j ELSE i > j)

RECURSIVE sort_values(_, _)
\* sort_values(ascending=False) of a series of counts.
sort_values(es, ties) ==
    IF es = <<>> THEN <<>>
    ELSE LET i == Leader(es, ties)
         IN <<es[i]>> \o sort_values(SubSeq(es, 1, i - 1) \o SubSeq(es, i + 1, Len(es)), ties)

\* Series.value_counts(): one entry per distinct value, counted in order of
\* first appearance and then sorted by falling count.
value_counts(col, ties) ==
    LET keys == unique(col)
        es   == [k \in 1..Len(keys) |->
                    [key |-> keys[k],
                     count |-> Cardinality({i \in 1..Len(col) : col[i] = keys[k]})]]
    IN sort_values(es, ties)

\* .head(n)
head(s, n) == SubSeq(s, 1, Min(n, Len(s)))

RECURSIVE SortAsc(_)
SortAsc(S) ==
    IF S = {} THEN <<>>
    ELSE LET m == CHOOSE x \in S : \A y \in S : x <= y
         IN <<m>> \o SortAsc(S \ {m})

\* groupby(c).size(): one entry per distinct key, in rising key order.
groupby_size(col) ==
    LET keys == SortAsc(Range(col))
    IN [k \in 1..Len(keys) |->
           [key |-> keys[k], size |-> Cardinality({i \in 1..Len(col) : col[i] = keys[k]})]]

\* Series.mean(): the mean of the present cells as a fraction; den = 0 is NaN.
mean(col) ==
    LET vals == Flatten(col)
    IN [num |-> SumSeq(vals), den |-> Len(vals)]

\* round(x, 2), in hundredths; <<>> is NaN.
round2(q) ==
    IF q.den = 0 THEN <<>>
    ELSE LET a == 100 * q.num
             d == a \div q.den
             r == a % q.den
         IN << IF 2 * r < q.den THEN d
               ELSE IF 2 * r > q.den THEN d + 1
               ELSE IF d % 2 = 0 THEN d ELSE d + 1 >>

Zero == [num |-> 0, den |-> 1]

\* ---------------------------------------------------------------- metrics
\* summary_metrics counting the rows of the whole table as the total.
summary_numbers_all_rows(df_global, status, vehicle, hour_range) ==
    LET df == filter_data(df_global, status, vehicle, hour_range)
        total_rides        == Len(df_global)
        completed          == CountEq(df, "BookingStatus", "Complete")
        cancelled_driver   == CountEq(df, "BookingStatus", "Cancelled by Driver")
        cancelled_customer == CountEq(df, "BookingStatus", "Cancelled by Customer")
        no_driver          == CountEq(df, "BookingStatus", "No Driver Found")
        incomplete         == CountEq(df, "BookingStatus", "Incomplete")
        avg_distance       == IF df # <<>> THEN mean(Column(df, "RideDistance")) ELSE Zero
        avg_driver_rating  == IF df # <<>> THEN mean(Column(df, "DriverRatings")) ELSE Zero
    IN << [name |-> "Total Rides", value |-> total_rides],
          [name |-> "Completed", value |-> completed],
          [name |-> "Cancelled by Driver", value |-> cancelled_driver],
          [name |-> "Cancelled by Customer", value |-> cancelled_customer],
          [name |-> "No Driver Found", value |-> no_driver],
          [name |-> "Incomplete", value |-> incomplete],
          [name |-> "Avg Ride Distance", value |-> round2(avg_distance)],
          [name |-> "Avg Driver Rating", value |-> round2(avg_driver_rating)] >>

\* summary_metrics taking the means of an empty frame too.
summary_numbers_unguarded(df_global, status, vehicle, hour_range) ==
    LET df == filter_data(df_global, status, vehicle, hour_range)
        total_rides        == Len(df)
        completed          == CountEq(df, "BookingStatus", "Complete")
        cancelled_driver   == CountEq(df, "BookingStatus", "Cancelled by Driver")
        cancelled_customer == CountEq(df, "BookingStatus", "Cancelled by Customer")
        no_driver          == CountEq(df, "BookingStatus", "No Driver Found")
        incomplete         == CountEq(df, "BookingStatus", "Incomplete")
        avg_distance       == mean(Column(df, "RideDistance"))
        avg_driver_rating  == mean(Column(df, "DriverRatings"))
    IN << [name |-> "Total Rides", value |-> total_rides],
          [name |-> "Completed", value |-> completed],
          [name |-> "Cancelled by Driver", value |-> cancelled_driver],
          [name |-> "Cancelled by Customer", value |-> cancelled_customer],
          [name |-> "No Driver Found", value |-> no_driver],
          [name |-> "Incomplete", value |-> incomplete],
          [name |-> "Avg Ride Distance", value |-> round2(avg_distance)],
          [name |-> "Avg Driver Rating", value |-> round2(avg_driver_rating)] >>

\* The list `numbers` that summary_metrics builds.
summary_numbers(df_global, status, vehicle, hour_range) ==
    LET df == filter_data(df_global, status, vehicle, hour_range)
        total_rides        == Len(df)
        completed          == CountEq(df, "BookingStatus", "Complete")
        cancelled_driver   == CountEq(df, "BookingStatus", "Cancelled by Driver")
        cancelled_customer == CountEq(df, "BookingStatus", "Cancelled by Customer")
        no_driver          == CountEq(df, "BookingStatus", "No Driver Found")
        incomplete         == CountEq(df, "BookingStatus", "Incomplete")
        avg_distance       == IF df # <<>> THEN mean(Column(df, "RideDistance")) ELSE Zero
        avg_driver_rating  == IF df # <<>> THEN mean(Column(df, "DriverRatings")) ELSE Zero
    IN << [name |-> "Total Rides", value |-> total_rides],
          [name |-> "Completed", value |-> completed],
          [name |-> "Cancelled by Driver", value |-> cancelled_driver],
          [name |-> "Cancelled by Customer", value |-> cancelled_customer],
          [name |-> "No Driver Found", value |-> no_driver],
          [name |-> "Incomplete", value |-> incomplete],
          [name |-> "Avg Ride Distance", value |-> round2(avg_distance)],
          [name |-> "Avg Driver Rating", value |-> round2(avg_driver_rating)] >>

\* What summary_metrics returns: pn.Row() with no objects, whatever
\* `numbers` holds.
summary_metrics(df_global, status, vehicle, hour_range) ==
    LET numbers == summary_numbers(df_global, status, vehicle, hour_range)
    IN [objects |-> SubSeq(numbers, 1, 0)]

\* ----------------------------------------------------------------- charts
BINS == 20

ride_status_chart(df_global, ties, status, vehicle, hour_range) ==
    LET df == filter_data(df_global, status, vehicle, hour_range)
    IN [plot |-> "bar", data |-> value_counts(Column(df, "BookingStatus"), ties)]

rides_over_time_chart(df_global, status, vehicle, hour_range) ==
    LET df == filter_data(df_global, status, vehicle, hour_range)
        rides_by_hour == groupby_size(Column(df, "Hour"))
    IN [plot |-> "line", data |-> rides_by_hour]

ride_distance_histogram(df_global, status, vehicle, hour_range) ==
    LET df == filter_data(df_global, status, vehicle, hour_range)
    IN [plot |-> "hist", bins |-> BINS, data |-> Column(df, "RideDistance")]

scatter_distance_rating(df_global, status, vehicle, hour_range) ==
    LET df == filter_data(df_global, status, vehicle, hour_range)
    IN [plot |-> "scatter",
        data |-> [i \in 1..Len(df) |->
                     [x |-> df[i].RideDistance, y |-> df[i].DriverRatings,
                      c |-> df[i].CustomerRating]]]

\* top_pickup_locations_map cut at the length of the other top list.
top_pickup_locations_map_short(df_global, ties, status, vehicle, hour_range) ==
    LET df == filter_data(df_global, status, vehicle, hour_range)
        top_locations == head(value_counts(Column(df, "PickupLocation"), ties), TOP_PLACES)
    IN [plot |-> "bar",
        data |-> [i \in 1..Len(top_locations) |->
                     [PickupLocation |-> top_locations[i].key,
                      Count |-> top_locations[i].count]]]

top_pickup_locations_map(df_global, ties, status, vehicle, hour_range) ==
    LET df == filter_data(df_global, status, vehicle, hour_range)
        top_locations == head(value_counts(Column(df, "PickupLocation"), ties), TOP_PICKUPS)
    IN [plot |-> "bar",
        data |-> [i \in 1..Len(top_locations) |->
                     [PickupLocation |-> top_locations[i].key,
                      Count |-> top_locations[i].count]]]

top_places_chart(df_global, ties, status, vehicle, hour_range) ==
    LET df == filter_data(df_global, status, vehicle, hour_range)
        top_pickup == head(value_counts(Column(df, "PickupLocation"), ties), TOP_PLACES)
        top_drop   == head(value_counts(Column(df, "DropLocation"), ties), TOP_PLACES)
    IN [plot |-> "bar",
        data |-> [i \in 1..Len(top_pickup) |->
                     [Location |-> top_pickup[i].key, Count |-> top_pickup[i].count,
                      Type |-> "Pickup"]]
                 \o [i \in 1..Len(top_drop) |->
                     [Location |-> top_drop[i].key, Count |-> top_drop[i].count,
                      Type |-> "Drop"]]]

\* --------------------------------------------------------------- forecast
\* pd.to_datetime of a Date cell: midnight of that day.
date_to_datetime(date) == to_datetime(date, 0)

\* Prophet.make_future_dataframe(periods): the dates of the history and
\* the `periods` days after its last date.
make_future_dataframe(history, periods) ==
    LET last == history[Len(history)].ds
    IN [i \in 1..Len(history) |-> history[i].ds]
       \o [k \in 1..periods |-> [day |-> last.day + k, minute |-> last.minute]]

\* Prophet.predict(future): one predicted value per date; the values come
\* from the fitted model and are left uninterpreted.
predict(future) == [i \in 1..Len(future) |-> [ds |-> future[i], yhat |-> "yhat"]]

\* forecast_future_bookings asking for one date more than the minimum.
forecast_future_bookings_late(df_global, status, vehicle, hour_range) ==
    LET df == filter_data(df_global, status, vehicle, hour_range)
        sizes == groupby_size(Column(df, "Date"))
        daily_rides == [i \in 1..Len(sizes) |->
                           [Date |-> sizes[i].key, y |-> sizes[i].size,
                            ds |-> date_to_datetime(sizes[i].key)]]
        series == [i \in 1..Len(daily_rides) |->
                      [ds |-> daily_rides[i].ds, y |-> daily_rides[i].y]]
    IN IF Len(daily_rides) <= MIN_HISTORY
       THEN [pane |-> [kind |-> "Markdown", text |-> "Not enough data to forecast.",
                       forecast |-> <<>>, actual |-> <<>>],
             fits |-> <<>>]
       ELSE LET future == make_future_dataframe(series, PERIODS)
                forecast == predict(future)
            IN [pane |-> [kind |-> "Overlay", text |-> "Future Client Bookings Forecast",
                          forecast |-> forecast, actual |-> series],
                fits |-> << [history |-> series, periods |-> PERIODS] >>]

\* forecast_future_bookings: the pane it returns, and the calls of
\* Prophet.fit it made on the way (the series and the horizon asked for).
forecast_future_bookings(df_global, status, vehicle, hour_range) ==
    LET df == filter_data(df_global, status, vehicle, hour_range)
        sizes == groupby_size(Column(df, "Date"))
        daily_rides == [i \in 1..Len(sizes) |->
                           [Date |-> sizes[i].key, y |-> sizes[i].size,
                            ds |-> date_to_datetime(sizes[i].key)]]
        series == [i \in 1..Len(daily_rides) |->
                      [ds |-> daily_rides[i].ds, y |-> daily_rides[i].y]]
    IN IF Len(daily_rides) < MIN_HISTORY
       THEN [pane |-> [kind |-> "Markdown", text |-> "Not enough data to forecast.",
                       forecast |-> <<>>, actual |-> <<>>],
             fits |-> <<>>]
       ELSE LET future == make_future_dataframe(series, PERIODS)
                forecast == predict(future)
            IN [pane |-> [kind |-> "Overlay", text |-> "Future Client Bookings Forecast",
                          forecast |-> forecast, actual |-> series],
                fits |-> << [history |-> series, periods |-> PERIODS] >>]

\* ------------------------------------------------------------------ table
\* The Tabulator of the Rides Table page.
interactive_table(small) == [value |-> small, page_size |-> PAGE_SIZE]

\* -------------------------------------------------------------- the state
VARIABLES
    df_uber,         \* the loaded table, with its two derived columns
    df_uber_small,   \* the eight-column selection taken at load
    sort_ties,       \* the order this build's unstable sort leaves ties in
    status_select,   \* value of the Booking Status select
    vehicle_select,  \* value of the Vehicle Type select
    hour_slider,     \* value of the Hour of Day range slider, <<start, end>>
    view,            \* the frame filter_data returned in the last run of the bound functions
    numbers,         \* the list `numbers` of the last run of summary_metrics
    prophet_log,     \* the Prophet.fit calls of the last run of forecast_future_bookings
    page1,           \* the seven bound panes of the Dashboard page
    page2,           \* the Rides Table page
    main_area,       \* the objects of the main column
    last_click       \* the navigation button clicked last, "" before any click

vars == <<df_uber, df_uber_small, sort_ties, status_select, vehicle_select, hour_slider,
          view, numbers, prophet_log, page1, page2, main_area, last_click>>

\* The options of the two selects.
status_options == <<"All">> \o unique(Column(df_uber, "BookingStatus"))
vehicle_options == <<"All">> \o unique(Column(df_uber, "VehicleType"))

\* The slider positions the model moves the two handles to.
HourMarks == {SLIDER_START, 8, 14, SLIDER_END}
hour_ranges == {<<s, e>> : s \in HourMarks, e \in HourMarks} \ {<<s, e>> \in HourMarks \X HourMarks : s > e}

mapping == ("Dashboard" :> "page1") @@ ("Rides Table" :> "page2")

\* filter_data narrowing the module-level frame itself.
df_after_filter_in_place(df_global, status, vehicle, hour_range) ==
    filter_data(df_global, status, vehicle, hour_range)

\* What the frame df_uber holds after a run of the bound functions: each
\* of them filters a copy, so the frame itself.
df_after_filter(df_global, status, vehicle, hour_range) == df_global

\* The panes of create_page1, each evaluated for the widget values.
create_page1(df_global, ties, status, vehicle, hour_range) ==
    [ summary     |-> summary_metrics(df_global, status, vehicle, hour_range),
      status_chart |-> ride_status_chart(df_global, ties, status, vehicle, hour_range),
      over_time   |-> rides_over_time_chart(df_global, status, vehicle, hour_range),
      histogram   |-> ride_distance_histogram(df_global, status, vehicle, hour_range),
      scatter     |-> scatter_distance_rating(df_global, status, vehicle, hour_range),
      top_pickup  |-> top_pickup_locations_map(df_global, ties, status, vehicle, hour_range),
      forecast    |-> forecast_future_bookings(df_global, status, vehicle, hour_range).pane,
      top_places  |-> top_places_chart(df_global, ties, status, vehicle, hour_range) ]

create_page2(small) == [title |-> "Detailed Ride Table", table |-> interactive_table(small)]

\* The run of every bound function for the widget values (s, v, h).
Rebind(s, v, h) ==
    /\ view' = filter_data(df_uber, s, v, h)
    /\ numbers' = summary_numbers(df_uber, s, v, h)
    /\ prophet_log' = forecast_future_bookings(df_uber, s, v, h).fits
    /\ page1' = create_page1(df_uber, sort_ties, s, v, h)
    /\ df_uber' = df_after_filter(df_uber, s, v, h)

Init ==
    /\ \E csv \in CsvFiles :
          /\ df_uber = AddDerived(csv)
          /\ df_uber_small = SelectSmall(csv)
          /\ page2 = create_page2(SelectSmall(csv))
          /\ view = filter_data(AddDerived(csv), "All", "All", <<SLIDER_START, SLIDER_END>>)
          /\ numbers = summary_numbers(AddDerived(csv), "All", "All", <<SLIDER_START, SLIDER_END>>)
          /\ prophet_log = forecast_future_bookings(AddDerived(csv), "All", "All",
                                                    <<SLIDER_START, SLIDER_END>>).fits
          /\ \E t \in TieOrders :
                /\ sort_ties = t
                /\ page1 = create_page1(AddDerived(csv), t, "All", "All",
                                        <<SLIDER_START, SLIDER_END>>)
    /\ status_select = "All"
    /\ vehicle_select = "All"
    /\ hour_slider = <<SLIDER_START, SLIDER_END>>
    /\ main_area = <<mapping["Dashboard"]>>
    /\ last_click = ""

\* The widgets are objects of the Dashboard page: they take input while
\* that page is in the main area.
WidgetsShown == mapping["Dashboard"] \in Range(main_area)

StatusChange(s) ==
    /\ WidgetsShown
    /\ s # status_select
    /\ status_select' = s
    /\ Rebind(s, vehicle_select, hour_slider)
    /\ UNCHANGED <<df_uber_small, sort_ties, vehicle_select, hour_slider, page2, main_area,
                   last_click>>

VehicleChange(v) ==
    /\ WidgetsShown
    /\ v # vehicle_select
    /\ vehicle_select' = v
    /\ Rebind(status_select, v, hour_slider)
    /\ UNCHANGED <<df_uber_small, sort_ties, status_select, hour_slider, page2, main_area,
                   last_click>>

HourChange(h) ==
    /\ WidgetsShown
    /\ h # hour_slider
    /\ hour_slider' = h
    /\ Rebind(status_select, vehicle_select, h)
    /\ UNCHANGED <<df_uber_small, sort_ties, status_select, vehicle_select, page2, main_area,
                   last_click>>

\* show_page without the clear: the page is appended unless it is there.
show_page_objects_no_clear(objects, page_key) ==
    IF mapping[page_key] \in Range(objects) THEN objects ELSE Append(objects, mapping[page_key])

\* main_area.clear(); main_area.append(mapping[page_key])
show_page_objects(objects, page_key) == Append(SubSeq(objects, 1, 0), mapping[page_key])

show_page(page_key) ==
    /\ main_area' = show_page_objects(main_area, page_key)
    /\ last_click' = page_key
    /\ UNCHANGED <<df_uber, df_uber_small, sort_ties, status_select, vehicle_select,
                   hour_slider, view, numbers, prophet_log, page1, page2>>

Next ==
    \/ \E s \in Range(status_options) : StatusChange(s)
    \/ \E v \in Range(vehicle_options) : VehicleChange(v)
    \/ \E h \in hour_ranges : HourChange(h)
    \/ show_page("Dashboard")
    \/ show_page("Rides Table")

Spec == Init /\ [][Next]_vars

\* ================================================================ claims
\* The selection predicate of the filter, row by row.
Matches(r, s, v, h) ==
    /\ s = "All" \/ r.BookingStatus = s
    /\ v = "All" \/ r.VehicleType = v
    /\ h[1] <= r.Hour /\ r.Hour <= h[2]

MatchingRows(df, s, v, h) == SelectSeq(df, LAMBDA r : Matches(r, s, v, h))

\* C1: the filtered view holds exactly the rows of the table whose status
\* and vehicle equal the selected ones (a selection of "All" skipping the
\* test) and whose Hour lies in the inclusive range: every row of the view
\* matches, no matching row is missing, none appears twice.
C1_FilterExact ==
    /\ \A i \in 1..Len(view) :
          /\ view[i] \in Range(df_uber)
          /\ Matches(view[i], status_select, vehicle_select, hour_slider)
    /\ \A j \in 1..Len(df_uber) :
          Matches(df_uber[j], status_select, vehicle_select, hour_slider)
              => df_uber[j] \in Range(view)
    /\ Len(view) = Cardinality({j \in 1..Len(df_uber) :
                        Matches(df_uber[j], status_select, vehicle_select, hour_slider)})

C1_Witness ==
    /\ status_select # "All" /\ vehicle_select # "All"
    /\ hour_slider # <<SLIDER_START, SLIDER_END>>
    /\ \E i \in 1..Len(view) : view[i].Hour = hour_slider[2]
    /\ \E j \in 1..Len(df_uber) :
          /\ df_uber[j].BookingStatus = status_select
          /\ df_uber[j].VehicleType = vehicle_select
          /\ df_uber[j].Hour > hour_slider[2]

\* C3 as stated: the rows of the table are those of the filtered view of
\* the current selection.
C3_TableFollowsFilter ==
    /\ Len(page2.table.value) = Len(view)
    /\ \A i \in 1..Len(view) :
          \A c \in SmallColumns : page2.table.value[i][c] = view[i][c]

\* C3, amended: the table always holds every row of the loaded table, in
\* its eight columns, whatever the selection.
C3_TableShowsAll ==
    /\ Len(page2.table.value) = Len(df_uber)
    /\ \A i \in 1..Len(df_uber) :
          /\ DOMAIN page2.table.value[i] = SmallColumns
          /\ \A c \in SmallColumns : page2.table.value[i][c] = df_uber[i][c]

C3_Witness ==
    /\ main_area = <<mapping["Rides Table"]>>
    /\ status_select # "All"
    /\ Len(view) < Len(df_uber)
    /\ Len(page2.table.value) = Len(df_uber)

\* C2 as stated: every pane of the Dashboard page holds the artifact
\* computed from the current selection, the summary numbers included.
C2_AllArtifactsCurrent ==
    /\ page1.summary.objects =
           summary_numbers(df_uber, status_select, vehicle_select, hour_slider)
    /\ page1.status_chart =
           ride_status_chart(df_uber, sort_ties, status_select, vehicle_select, hour_slider)
    /\ page1.over_time =
           rides_over_time_chart(df_uber, status_select, vehicle_select, hour_slider)
    /\ page1.histogram =
           ride_distance_histogram(df_uber, status_select, vehicle_select, hour_slider)
    /\ page1.scatter =
           scatter_distance_rating(df_uber, status_select, vehicle_select, hour_slider)
    /\ page1.top_pickup =
           top_pickup_locations_map(df_uber, sort_ties, status_select, vehicle_select, hour_slider)
    /\ page1.forecast =
           forecast_future_bookings(df_uber, status_select, vehicle_select, hour_slider).pane
    /\ page1.top_places =
           top_places_chart(df_uber, sort_ties, status_select, vehicle_select, hour_slider)

\* C4: no step changes the loaded table or its eight-column selection, and
\* the view a step produces is the rows of that table matching the new
\* selection, whatever the selections before it.
C4_StoreFrozen ==
    [][ /\ df_uber' = df_uber
        /\ df_uber_small' = df_uber_small
        /\ Range(view') \subseteq Range(df_uber)
        /\ view' = MatchingRows(df_uber, status_select', vehicle_select', hour_slider') ]_vars

C4_Witness ==
    /\ status_select # "All"
    /\ hour_slider # <<SLIDER_START, SLIDER_END>>
    /\ view # <<>>
    /\ Len(view) < Len(df_uber)

\* C5: filtering the filtered view again with the same selection gives the
\* same rows.
C5_FilterIdempotent ==
    filter_data(view, status_select, vehicle_select, hour_slider) = view

C5_Witness ==
    /\ vehicle_select # "All"
    /\ hour_slider[1] > SLIDER_START
    /\ Len(view) > 1
    /\ Len(view) < Len(df_uber)

CountedStatuses == {"Complete", "Cancelled by Driver", "Cancelled by Customer",
                    "No Driver Found", "Incomplete"}

\* C6: the first number is the total and equals the number of rows of the
\* view; the next five are the counts of the five statuses, each present
\* and a natural number (zero included); they add up to the total exactly
\* when every row of the view has one of the five statuses.
C6_StatusCounts ==
    /\ Len(numbers) = 8
    /\ numbers[1].name = "Total Rides" /\ numbers[1].value = Len(view)
    /\ <<numbers[2].name, numbers[3].name, numbers[4].name, numbers[5].name, numbers[6].name>>
           = <<"Completed", "Cancelled by Driver", "Cancelled by Customer",
               "No Driver Found", "Incomplete">>
    /\ \A k \in 2..6 : numbers[k].value \in Nat
    /\ numbers[2].value = Cardinality({i \in 1..Len(view) : view[i].BookingStatus = "Complete"})
    /\ \A k \in 3..6 :
          numbers[k].value =
              Cardinality({i \in 1..Len(view) : view[i].BookingStatus = numbers[k].name})
    /\ (numbers[2].value + numbers[3].value + numbers[4].value + numbers[5].value
           + numbers[6].value = numbers[1].value)
       <=> (\A i \in 1..Len(view) : view[i].BookingStatus \in CountedStatuses)

C6_Witness ==
    /\ vehicle_select # "All"
    /\ \E i \in 1..Len(view) : view[i].BookingStatus \notin CountedStatuses
    /\ \E k \in 2..6 : numbers[k].value = 0
    /\ \E k \in 2..6 : numbers[k].value > 0
    /\ numbers[1].value = Len(view)
    /\ Len(view) < Len(df_uber)

\* C7: on an empty view the two means are 0, every count is 0, the forecast
\* is the message pane with no call of the predictor, and the other
\* artifacts are empty.
C7_EmptyViewDefaults ==
    view = <<>> =>
        /\ numbers[7].name = "Avg Ride Distance" /\ numbers[7].value = <<0>>
        /\ numbers[8].name = "Avg Driver Rating" /\ numbers[8].value = <<0>>
        /\ \A k \in 1..6 : numbers[k].value = 0
        /\ page1.forecast.kind = "Markdown"
        /\ prophet_log = <<>>
        /\ page1.status_chart.data = <<>>
        /\ page1.over_time.data = <<>>
        /\ page1.histogram.data = <<>>
        /\ page1.scatter.data = <<>>
        /\ page1.top_pickup.data = <<>>
        /\ page1.top_places.data = <<>>

C7_Witness ==
    /\ view = <<>>
    /\ df_uber # <<>>
    /\ status_select # "All"
    /\ numbers[7].value = <<0>>

\* The dates of the view and the number of its rows on a date.
ViewDates == {view[i].Date : i \in 1..Len(view)}
RidesOn(d) == Cardinality({i \in 1..Len(view) : view[i].Date = d})
DailyPairs(series) == {<<series[i].ds.day, series[i].ds.minute, series[i].y>> : i \in 1..Len(series)}

\* C8: with fewer than 5 distinct dates in the view the forecast pane is
\* the message and the predictor is not called; with 5 or more it is called
\* once, with one entry per date holding that date's row count and with a
\* horizon of 30, and the actual series of the pane has exactly those dates
\* and counts.
C8_Forecast ==
    /\ Cardinality(ViewDates) < 5 =>
          /\ page1.forecast.kind = "Markdown"
          /\ page1.forecast.text = "Not enough data to forecast."
          /\ prophet_log = <<>>
    /\ Cardinality(ViewDates) >= 5 =>
          /\ page1.forecast.kind = "Overlay"
          /\ Len(prophet_log) = 1
          /\ prophet_log[1].periods = 30
          /\ Len(prophet_log[1].history) = Cardinality(ViewDates)
          /\ DailyPairs(prophet_log[1].history) = {<<d, 0, RidesOn(d)>> : d \in ViewDates}
          /\ Len(page1.forecast.actual) = Cardinality(ViewDates)
          /\ DailyPairs(page1.forecast.actual) = {<<d, 0, RidesOn(d)>> : d \in ViewDates}
          /\ Len(page1.forecast.forecast) = Cardinality(ViewDates) + 30

C8_Witness ==
    /\ Cardinality(ViewDates) = 5
    /\ Len(view) < Len(df_uber)
    /\ \E d \in ViewDates : RidesOn(d) > 1
    /\ Len(prophet_log) = 1
    /\ page1.forecast.kind = "Overlay"

\* The pickup locations of the view and the number of its rows at one.
ViewPickups == {view[i].PickupLocation : i \in 1..Len(view)}
PickupsAt(l) == Cardinality({i \in 1..Len(view) : view[i].PickupLocation = l})
TopData == page1.top_pickup.data

\* C9, amended: the top-10 list has min(10, distinct pickup locations)
\* entries, of distinct locations, in non-increasing order of count, each
\* count the number of rows of the view at that location, and no location
\* left out has a count greater than one in the list.
C9_TopPickups ==
    /\ Len(TopData) = Min(10, Cardinality(ViewPickups))
    /\ \A i \in 1..Len(TopData) :
          /\ TopData[i].PickupLocation \in ViewPickups
          /\ TopData[i].Count = PickupsAt(TopData[i].PickupLocation)
    /\ \A i, j \in 1..Len(TopData) :
          /\ i < j => TopData[i].Count >= TopData[j].Count
          /\ i # j => TopData[i].PickupLocation # TopData[j].PickupLocation
    /\ \A l \in ViewPickups \ {TopData[i].PickupLocation : i \in 1..Len(TopData)} :
          \A i \in 1..Len(TopData) : PickupsAt(l) <= TopData[i].Count

\* C9 as stated: the above, and locations with equal counts are listed in
\* the order they are first met in the view.
C9_TopPickupsFirstMet ==
    /\ C9_TopPickups
    /\ \A i, j \in 1..Len(TopData) :
          (i < j /\ TopData[i].Count = TopData[j].Count) =>
              FirstIndex(Column(view, "PickupLocation"), TopData[i].PickupLocation)
                  < FirstIndex(Column(view, "PickupLocation"), TopData[j].PickupLocation)

C9_Witness ==
    /\ Cardinality(ViewPickups) > 10
    /\ Len(TopData) = 10
    /\ \E i, j \in 1..Len(TopData) : i # j /\ TopData[i].Count = TopData[j].Count
    /\ \E i, j \in 1..Len(TopData) : TopData[i].Count > TopData[j].Count

\* C10: the main area holds one page at all times, the Dashboard before any
\* click and the page of the last button clicked after one; and a step that
\* clicks a button leaves the selection, the tables and the panes of the
\* Dashboard as they were.
C10_OnePage ==
    /\ [](/\ Len(main_area) = 1
          /\ main_area[1] = (IF last_click = "Rides Table" THEN "page2" ELSE "page1"))
    /\ [][ (main_area' # main_area \/ last_click' # last_click) =>
               UNCHANGED <<df_uber, df_uber_small, status_select, vehicle_select, hour_slider,
                           page1, page2>> ]_vars

C10_Witness ==
    /\ last_click = "Dashboard"
    /\ main_area = <<"page1">>
    /\ status_select # "All"
    /\ vehicle_select # "All"
    /\ hour_slider # <<SLIDER_START, SLIDER_END>>

====
